---- MODULE Spec2Model ----
(***************************************************************************)
(* A model of the custom-printer command encoder (src/src/lib.rs): the     *)
(* CustomPrinter builder with its command buffer `cmd`, the device file    *)
(* it writes to, the fixed-byte command appends, the bit-image append and  *)
(* the pure conversion convert_bitmap_to_bitimage.                         *)
(*                                                                         *)
(* Bytes are integers 0..255.  Vec<u8> / &[u8] are sequences, so the Rust  *)
(* index n is the TLA+ index n + 1.                                        *)
(***************************************************************************)
EXTENDS Integers, Sequences, FiniteSets

VARIABLES
    cmd,       \* CustomPrinter.cmd: the commands appended and not yet run
    device,    \* every byte CustomPrinter.file has accepted, in order
    appended,  \* history: every byte ever appended to cmd, in order
    pre,       \* cmd as it was when the last call was entered
    op,        \* the last call: its name and its arguments
    ret,       \* what the last call returned (or that it panicked)
    calls      \* how many appends and how many runs have been called

vars == <<cmd, device, appended, pre, op, ret, calls>>

---------------------------------------------------------------------------
(* Bounds of the model (not program constants).                            *)

\* widths of the bitmaps handed to convert_bitmap_to_bitimage
MaxWidth == 16
\* heights of those bitmaps: 25 gives a second, padded bank in 24-dot modes
MaxHeight == 25
\* the bitmaps are taken from a family of byte patterns 0..MaxSeed
MaxSeed == 3
\* the bitmap is up to MaxSlack bytes shorter or longer than height*width/8
MaxSlack == 1
\* append calls (cut_paper, print, ..., bit_image) in one behaviour
MaxAppends == 2
\* bit_image calls in one behaviour
MaxImages == 1
\* run calls in one behaviour
MaxRuns == 2
\* bytes the device takes from one write_all before it fails: 0..MaxPartial
MaxPartial == 1

---------------------------------------------------------------------------
(* Command constants.                                                      *)

PRINT == <<10>>
PRINT_FEED_INCHES == <<27, 74>>
PRINT_FEED_LINES == <<27, 100>>
SPEED_QUALITY == <<27, 120>>
DENSITY == <<29, 124>>
BIT_IMAGE == <<27, 42>>
TOTAL_CUT == <<27, 105>>
PARTIAL_CUT == <<27, 109>>

BitImageMode ==
    {"Dots8SingleDensity", "Dots8DoubleDensity",
     "Dots24SingleDensity", "Dots24DoubleDensity"}
CutType == {"TotalCut", "PartialCut"}
FeedUnit == {"Inches", "Lines"}
Speed == {"High", "Normal", "Low"}
Density == {"Minus50", "Minus25", "Zero", "Plus25", "Plus50"}

---------------------------------------------------------------------------
(* u8 arithmetic.                                                          *)

\* `x as u8`: the low eight bits
AsU8(x) == x % 256

\* 0x80 >> n, for n in 0..7
Shr80(n) == 2 ^ (7 - n)

\* byte & mask != 0, for a one-bit mask
TestBit(byte, mask) == (byte \div mask) % 2 = 1

\* byte | mask, for a one-bit mask
OrBit(byte, mask) == IF TestBit(byte, mask) THEN byte ELSE byte + mask

---------------------------------------------------------------------------
(* convert_bitmap_to_bitimage, lib.rs 126-158.                             *)

\* Bank with the 8-dot double-density mode given a 24-line bank
Bank_DoubleIs24(mode) ==
    IF mode = "Dots8SingleDensity" THEN 8 ELSE 24

\* number of lines in a bank
Bank(mode) ==
    IF mode \in {"Dots8SingleDensity", "Dots8DoubleDensity"} THEN 8 ELSE 24

\* number of banks in bit image
Banks(height, mode) == (height + Bank(mode) - 1) \div Bank(mode)

\* A Vec<u8> under construction: indexing it out of bounds panics, and a panic
\* ends the call.
Building(bytes) == [panic |-> FALSE, bytes |-> bytes]
Panicked == [panic |-> TRUE, bytes |-> <<>>]

\* bitimage[dst] |= mask, with Rust's bounds check
OrAt(acc, dst, mask) ==
    IF dst < Len(acc.bytes)
    THEN Building([acc.bytes EXCEPT ![dst + 1] = OrBit(@, mask)])
    ELSE Panicked

\* ConvertBit with the destination bit chosen by the column, not the dot-line
ConvertBit_ColumnMask(width, bitmap, mode, i, j, k, acc) ==
    LET bank == Bank(mode)
        step == width \div 8
        src == i * step * bank + k * step + j \div 8
        dst == i * width * (bank \div 8) + j * (bank \div 8) + k \div 8
    IN  IF src < Len(bitmap) /\ TestBit(bitmap[src + 1], Shr80(j % 8))
        THEN OrAt(acc, dst, Shr80(j % 8))
        ELSE acc

\* the body of the innermost loop (lines 148-152): one source bit is moved to
\* its place in the bit image
ConvertBit(width, bitmap, mode, i, j, k, acc) ==
    LET bank == Bank(mode)
        step == width \div 8
        src == i * step * bank + k * step + j \div 8
        dst == i * width * (bank \div 8) + j * (bank \div 8) + k \div 8
    IN  IF src < Len(bitmap) /\ TestBit(bitmap[src + 1], Shr80(j % 8))
        THEN OrAt(acc, dst, Shr80(k % 8))
        ELSE acc

\* for k in 0..bank
RECURSIVE ConvertLoopK(_, _, _, _, _, _, _)
ConvertLoopK(width, bitmap, mode, i, j, k, acc) ==
    IF acc.panic \/ k >= Bank(mode) THEN acc
    ELSE ConvertLoopK(width, bitmap, mode, i, j, k + 1,
                      ConvertBit(width, bitmap, mode, i, j, k, acc))

\* for j in 0..width
RECURSIVE ConvertLoopJ(_, _, _, _, _, _)
ConvertLoopJ(width, bitmap, mode, i, j, acc) ==
    IF acc.panic \/ j >= width THEN acc
    ELSE ConvertLoopJ(width, bitmap, mode, i, j + 1,
                      ConvertLoopK(width, bitmap, mode, i, j, 0, acc))

\* for i in 0..banks
RECURSIVE ConvertLoopI(_, _, _, _, _, _)
ConvertLoopI(width, height, bitmap, mode, i, acc) ==
    IF acc.panic \/ i >= Banks(height, mode) THEN acc
    ELSE ConvertLoopI(width, height, bitmap, mode, i + 1,
                      ConvertLoopJ(width, bitmap, mode, i, 0, acc))

\* The result is Building(bitimage), or Panicked if an index was out of bounds.
convert_bitmap_to_bitimage(width, height, bitmap, mode) ==
    LET size == Banks(height, mode) * (Bank(mode) \div 8) * width
    IN  ConvertLoopI(width, height, bitmap, mode, 0,
                     Building([n \in 1..size |-> 0]))

---------------------------------------------------------------------------
(* The conversion on its own: the arguments are drawn from bounded sets    *)
(* and the function is applied to them.                                    *)

ConvWidths == {w \in 1..MaxWidth : w % 8 \in {0, 3}}
ConvHeights == 1..MaxHeight

\* byte n of the bitmap of family member `seed`
PatternByte(seed, n) ==
    CASE seed = 0 -> 255
      [] seed = 1 -> IF n = 0 THEN 128 ELSE 0
      [] OTHER -> (seed * 53 + n * (2 * seed + 1) * 17 + 29) % 256

PatternBitmap(seed, len) == [n \in 1..len |-> PatternByte(seed, n - 1)]

\* the bitmap lengths tried for a width x height image
ConvLens(w, h) ==
    {n \in (h * (w \div 8) - MaxSlack)..(h * (w \div 8) + MaxSlack) : n >= 0}

ConvArgs ==
    UNION { UNION { { [name |-> "convert_bitmap_to_bitimage", width |-> w,
                       height |-> h, bitmap |-> PatternBitmap(s, n),
                       mode |-> m] :
                        s \in 0..MaxSeed, n \in ConvLens(w, h),
                        m \in BitImageMode } :
                    h \in ConvHeights } :
            w \in ConvWidths }

NoCalls == [append |-> 0, image |-> 0, run |-> 0]

\* what a call has returned: nothing yet, a value, Ok(self), Err(_), or a panic
Pending == [tag |-> "Pending"]
Panic == [tag |-> "Panic"]
Ok == [tag |-> "Ok"]
Err == [tag |-> "Err"]

InitConvert ==
    /\ cmd = <<>>
    /\ device = <<>>
    /\ appended = <<>>
    /\ pre = <<>>
    /\ op \in ConvArgs
    /\ ret = Pending
    /\ calls = NoCalls

Convert ==
    /\ op.name = "convert_bitmap_to_bitimage"
    /\ ret = Pending
    /\ LET r == convert_bitmap_to_bitimage(op.width, op.height,
                                           op.bitmap, op.mode)
       IN  ret' = IF r.panic THEN Panic ELSE [tag |-> "Value", val |-> r.bytes]
    /\ UNCHANGED <<cmd, device, appended, pre, op, calls>>

NextConvert == Convert

SpecConvert == InitConvert /\ [][NextConvert]_vars

---------------------------------------------------------------------------
(* CustomPrinter: new, the fixed-byte appends and run.                     *)

\* CustomPrinter::new: the device is open and no command is appended
new ==
    /\ cmd = <<>>
    /\ device = <<>>
    /\ appended = <<>>
    /\ pre = <<>>
    /\ op = [name |-> "new"]
    /\ ret = Ok
    /\ calls = NoCalls

\* a panic unwinds out of the caller: nothing is called after it
Alive == ret.tag # "Panic"

\* one more append may be called
CanAppend == Alive /\ calls.append < MaxAppends

\* Extend with the buffer overwritten instead of extended
Extend_Overwrite(call, bytes) ==
    /\ cmd' = bytes
    /\ appended' = appended \o bytes
    /\ pre' = cmd
    /\ op' = call
    /\ ret' = Ok
    /\ calls' = [calls EXCEPT !.append = @ + 1]
    /\ UNCHANGED device

\* self.cmd.extend_from_slice(bytes), and the call returns self
Extend(call, bytes) ==
    /\ cmd' = cmd \o bytes
    /\ appended' = appended \o bytes
    /\ pre' = cmd
    /\ op' = call
    /\ ret' = Ok
    /\ calls' = [calls EXCEPT !.append = @ + 1]
    /\ UNCHANGED device

CutBytes(cut_type) ==
    CASE cut_type = "TotalCut" -> TOTAL_CUT
      [] cut_type = "PartialCut" -> PARTIAL_CUT

cut_paper(cut_type) ==
    /\ CanAppend
    /\ Extend([name |-> "cut_paper", cut_type |-> cut_type], CutBytes(cut_type))

print ==
    /\ CanAppend
    /\ Extend([name |-> "print"], PRINT)

FeedBytes(unit, amount) ==
    (CASE unit = "Inches" -> PRINT_FEED_INCHES
       [] unit = "Lines" -> PRINT_FEED_LINES) \o <<amount>>

print_and_feed_paper(unit, amount) ==
    /\ CanAppend
    /\ Extend([name |-> "print_and_feed_paper", unit |-> unit, amount |-> amount],
           FeedBytes(unit, amount))

SpeedBytes(s) ==
    SPEED_QUALITY \o <<CASE s = "High" -> 0
                         [] s = "Normal" -> 1
                         [] s = "Low" -> 2>>

speed(s) ==
    /\ CanAppend
    /\ Extend([name |-> "speed", speed |-> s], SpeedBytes(s))

DensityBytes(d) ==
    DENSITY \o <<CASE d = "Minus50" -> 0
                   [] d = "Minus25" -> 1
                   [] d = "Zero" -> 2
                   [] d = "Plus25" -> 3
                   [] d = "Plus50" -> 4>>

density(d) ==
    /\ CanAppend
    /\ Extend([name |-> "density", density |-> d], DensityBytes(d))

\* self.file.write_all(&self.cmd) either writes every byte and is Ok, or
\* returns the first error of a write, after the device has taken `taken`
\* bytes, fewer than all of them. (Nothing is written for an empty buffer, so
\* that write cannot fail.)
WriteOutcomes ==
    {[ok |-> TRUE]} \cup {[ok |-> FALSE, taken |-> n] : n \in 0..MaxPartial}

CanHappen(outcome, buf) ==
    IF outcome.ok THEN TRUE ELSE outcome.taken < Len(buf)

\* the bytes that reach the device
Written(outcome, buf) ==
    IF outcome.ok THEN buf ELSE SubSeq(buf, 1, outcome.taken)

\* run with the buffer cleared whether or not the write succeeded
run_ClearsAlways(outcome) ==
    /\ Alive
    /\ calls.run < MaxRuns
    /\ CanHappen(outcome, cmd)
    /\ device' = device \o Written(outcome, cmd)
    /\ cmd' = <<>>
    /\ ret' = IF outcome.ok THEN Ok ELSE Err
    /\ pre' = cmd
    /\ op' = [name |-> "run"]
    /\ calls' = [calls EXCEPT !.run = @ + 1]
    /\ UNCHANGED appended

run(outcome) ==
    /\ Alive
    /\ calls.run < MaxRuns
    /\ CanHappen(outcome, cmd)
    /\ device' = device \o Written(outcome, cmd)
    /\ cmd' = IF outcome.ok THEN <<>> ELSE cmd
    /\ ret' = IF outcome.ok THEN Ok ELSE Err
    /\ pre' = cmd
    /\ op' = [name |-> "run"]
    /\ calls' = [calls EXCEPT !.run = @ + 1]
    /\ UNCHANGED appended

---------------------------------------------------------------------------
(* bit_image, lib.rs 177-225.                                              *)

\* What image::open(path) followed by grayscale() gives: an error, or an image
\* of positive width and height whose as_bytes() holds the samples row by row.
DecodeError == [ok |-> FALSE]
Decoded(width, height, bytes) ==
    [ok |-> TRUE, width |-> width, height |-> height, bytes |-> bytes]

\* The body of the loop of lines 188-193, for sample i.
ThresholdStep(bytes, i, acc) ==
    IF bytes[i + 1] = 0 THEN OrAt(acc, i \div 8, Shr80(i % 8)) ELSE acc

\* The loop over the samples i = from, from + 1, ..., below `to`.
RECURSIVE ThresholdLoop(_, _, _, _)
ThresholdLoop(bytes, i, to, acc) ==
    IF acc.panic \/ i >= to \/ i >= Len(bytes) THEN acc
    ELSE ThresholdLoop(bytes, i + 1, to, ThresholdStep(bytes, i, acc))

\* The same loop, eight samples at a time (the recursion stays shallow).
RECURSIVE ThresholdChunks(_, _, _)
ThresholdChunks(bytes, i, acc) ==
    IF acc.panic \/ i >= Len(bytes) THEN acc
    ELSE ThresholdChunks(bytes, i + 8, ThresholdLoop(bytes, i, i + 8, acc))

\* lines 187-193: the 8bpp samples made a 1bpp bitmap of len / 8 bytes, a
\* sample of 0x00 a set bit; Building(bitmap), or Panicked if bitmap[i / 8] is
\* out of bounds
Threshold(bytes) ==
    ThresholdChunks(bytes, 0, Building([n \in 1..(Len(bytes) \div 8) |-> 0]))

\* lines 206-211: m
ModeByte(mode) ==
    CASE mode = "Dots8SingleDensity" -> 0
      [] mode = "Dots8DoubleDensity" -> 1
      [] mode = "Dots24SingleDensity" -> 32
      [] mode = "Dots24DoubleDensity" -> 33

\* PayloadLen without the factor 3 of the 24-dot modes
PayloadLen_NoFactor(mode, width) == width

\* lines 206-211: k
PayloadLen(mode, width) ==
    CASE mode = "Dots8SingleDensity" -> width
      [] mode = "Dots8DoubleDensity" -> width
      [] mode = "Dots24SingleDensity" -> width * 3
      [] mode = "Dots24DoubleDensity" -> width * 3

\* lines 214-216: BIT_IMAGE, then [m, (width % 256) as u8, (width / 256) as u8]
FrameHeader(mode, width) ==
    BIT_IMAGE \o <<ModeByte(mode), AsU8(width % 256), AsU8(width \div 256)>>

\* lines 213-222: for i in 0..bitimage.len() / k, the header and the i-th
\* slice of k bytes
RECURSIVE FrameLoop(_, _, _, _, _)
FrameLoop(bitimage, header, k, i, acc) ==
    IF i >= Len(bitimage) \div k THEN acc
    ELSE FrameLoop(bitimage, header, k, i + 1,
                   acc \o header \o SubSeq(bitimage, i * k + 1, (i + 1) * k))

Frames(bitimage, mode, width) ==
    FrameLoop(bitimage, FrameHeader(mode, width), PayloadLen(mode, width), 0, <<>>)

\* lines 186-224: bit_image once the image is decoded: what is returned and
\* the bytes that are appended
BitImageDecoded(img, mode) ==
    LET bitmap == Threshold(img.bytes)
    IN  IF bitmap.panic THEN [ret |-> Panic, bytes |-> <<>>]
        ELSE LET bitimage == convert_bitmap_to_bitimage(
                                 img.width, img.height, bitmap.bytes, mode)
             IN  IF bitimage.panic THEN [ret |-> Panic, bytes |-> <<>>]
                 ELSE [ret |-> Ok,
                       bytes |-> Frames(bitimage.bytes, mode, img.width)]

\* BitImageResult with the opcode pushed before the image is opened
BitImageResult_EarlyOpcode(img, mode) ==
    IF ~img.ok THEN [ret |-> Err, bytes |-> BIT_IMAGE]
    ELSE LET r == BitImageDecoded(img, mode)
         IN  [ret |-> r.ret, bytes |-> BIT_IMAGE \o r.bytes]

\* lines 179-181 and on: `?` returns the error of a failed open or decode
\* before anything else is done
BitImageResult(img, mode) ==
    IF ~img.ok THEN [ret |-> Err, bytes |-> <<>>]
    ELSE BitImageDecoded(img, mode)

bit_image(img, mode) ==
    /\ CanAppend
    /\ calls.image < MaxImages
    /\ LET r == BitImageResult(img, mode)
       IN  /\ cmd' = cmd \o r.bytes
           /\ appended' = appended \o r.bytes
           /\ ret' = r.ret
    /\ pre' = cmd
    /\ op' = [name |-> "bit_image", img |-> img, mode |-> mode]
    /\ calls' = [calls EXCEPT !.append = @ + 1, !.image = @ + 1]
    /\ UNCHANGED device

\* sample i of the image of family member `seed`: 0x00 is black
SampleByte(seed, i) ==
    CASE seed = 0 -> 0
      [] seed = 1 -> IF i % 3 = 0 THEN 0 ELSE 255
      [] OTHER -> IF (i * 5 + i \div 8) % 4 = 1 THEN 0
                  ELSE IF i % 2 = 0 THEN 1 ELSE 255

\* the images tried: <<width, height, bytes per sample>> (two bytes when the
\* grayscale image keeps an alpha channel or 16-bit samples) and the patterns
ImageShapes == {<<1, 1, 1>>, <<3, 3, 2>>, <<8, 3, 2>>, <<8, 9, 1>>, <<8, 25, 1>>}
ImageSeeds == {0, 2}

Images ==
    { Decoded(sh[1], sh[2],
              [n \in 1..(sh[1] * sh[2] * sh[3]) |-> SampleByte(seed, n - 1)]) :
        sh \in ImageShapes, seed \in ImageSeeds }

Init == new

\* the sequencer with the parameterless appends and run
Next ==
    \/ \E t \in CutType : cut_paper(t)
    \/ print
    \/ \E o \in WriteOutcomes : run(o)

Spec == Init /\ [][Next]_vars

\* the amounts tried for print_and_feed_paper's u8
Amounts == {0, 10, 255}

\* every fixed-byte append with every parameter
NextFixed ==
    \/ \E t \in CutType : cut_paper(t)
    \/ print
    \/ \E u \in FeedUnit, a \in Amounts : print_and_feed_paper(u, a)
    \/ \E s \in Speed : speed(s)
    \/ \E d \in Density : density(d)

SpecFixed == Init /\ [][NextFixed]_vars

\* bit_image, before and after print
NextImage ==
    \/ print
    \/ \E img \in {DecodeError} \cup Images, m \in BitImageMode : bit_image(img, m)

SpecImage == Init /\ [][NextImage]_vars

\* The framing header on its own, for the widths a decoder can report (u32,
\* here up to 2^31 - 1): the small ones and those around the powers of 256.
HeaderWidths ==
    (1..MaxWidth) \cup {255, 256, 257, 384, 65535, 65536, 65537, 16777216, 2147483647}

InitHeader ==
    /\ cmd = <<>>
    /\ device = <<>>
    /\ appended = <<>>
    /\ pre = <<>>
    /\ op \in [name : {"frame_header"}, mode : BitImageMode, width : HeaderWidths]
    /\ ret = Pending
    /\ calls = NoCalls

Frame ==
    /\ op.name = "frame_header"
    /\ ret = Pending
    /\ ret' = [tag |-> "Value", val |-> FrameHeader(op.mode, op.width)]
    /\ UNCHANGED <<cmd, device, appended, pre, op, calls>>

NextHeader == Frame

SpecHeader == InitHeader /\ [][NextHeader]_vars

---------------------------------------------------------------------------
(* Properties of the conversion.                                           *)

Converted == op.name = "convert_bitmap_to_bitimage" /\ ret # Pending

\* dot-lines per bank as the printer's protocol has them
DotsOf(mode) ==
    CASE mode = "Dots8SingleDensity" -> 8
      [] mode = "Dots8DoubleDensity" -> 8
      [] mode = "Dots24SingleDensity" -> 24
      [] mode = "Dots24DoubleDensity" -> 24

CeilDiv(a, b) == IF a % b = 0 THEN a \div b ELSE a \div b + 1

\* the pixel at (row, col) of a row-major, MSB-first bitmap of `width` columns
\* and `height` rows exists and is set
PixelSet(bitmap, width, height, row, col) ==
    /\ row < height
    /\ TestBit(bitmap[row * (width \div 8) + col \div 8 + 1], Shr80(col % 8))

\* the bit of dot-line k of column j of bank i in a bit image
ImageBit(bitimage, width, dots, i, j, k) ==
    TestBit(bitimage[i * width * (dots \div 8) + j * (dots \div 8) + k \div 8 + 1],
            Shr80(k % 8))

\* the call is within the contract of C4: byte-aligned rows, a full bitmap
WellFormedArgs ==
    /\ op.width % 8 = 0
    /\ Len(op.bitmap) = (op.height * op.width) \div 8

\* C4: for every mode, positive height, positive width that is a multiple of 8
\* and bitmap of height*width/8 bytes, the result has
\* ceil(height/bank)*(bank/8)*width bytes, and the bit of bank i, column j,
\* dot-line k is set exactly when the pixel at row i*bank+k, column j exists
\* and is set.
C4_BitPlacement ==
    (Converted /\ WellFormedArgs) =>
        LET dots == DotsOf(op.mode)
            banks == CeilDiv(op.height, dots)
        IN  /\ ret.tag = "Value"
            /\ Len(ret.val) = banks * (dots \div 8) * op.width
            /\ \A i \in 0..(banks - 1), j \in 0..(op.width - 1), k \in 0..(dots - 1) :
                   ImageBit(ret.val, op.width, dots, i, j, k)
                       <=> PixelSet(op.bitmap, op.width, op.height, i * dots + k, j)

\* a 16 x 25 all-set bitmap in a 24-dot mode: the second bank holds row 24 and
\* 23 padding lines
C4_Witness ==
    /\ Converted /\ WellFormedArgs /\ ret.tag = "Value"
    /\ op.width = 16 /\ op.height = 25 /\ op.mode = "Dots24SingleDensity"
    /\ ret.val[1] = 255
    /\ ret.val[16 * 3 + 1] = 128

\* C5: the padding dot-lines of the last bank are unset and the call does not
\* panic, whatever the length of the bitmap.
C5_PaddingBlank ==
    (Converted /\ op.width % 8 = 0) =>
        LET dots == DotsOf(op.mode)
            banks == CeilDiv(op.height, dots)
        IN  /\ ret.tag = "Value"
            /\ \A i \in 0..(banks - 1), j \in 0..(op.width - 1), k \in 0..(dots - 1) :
                   i * dots + k >= op.height
                       => ~ImageBit(ret.val, op.width, dots, i, j, k)

\* the other density of the same bank size
OtherDensity(mode) ==
    CASE mode = "Dots8SingleDensity" -> "Dots8DoubleDensity"
      [] mode = "Dots8DoubleDensity" -> "Dots8SingleDensity"
      [] mode = "Dots24SingleDensity" -> "Dots24DoubleDensity"
      [] mode = "Dots24DoubleDensity" -> "Dots24SingleDensity"

\* C6: for every width, height and bitmap, the single- and the double-density
\* mode of the same bank size give the same bit image.
C6_DensityInvariant ==
    Converted =>
        LET other == convert_bitmap_to_bitimage(op.width, op.height, op.bitmap,
                                                OtherDensity(op.mode))
        IN  /\ ret.tag = "Value"
            /\ ~other.panic
            /\ ret.val = other.bytes

C6_Witness ==
    /\ Converted /\ ret.tag = "Value"
    /\ op.mode = "Dots8DoubleDensity" /\ op.width = 11 /\ op.height = 9
    /\ \E n \in 1..Len(ret.val) : ret.val[n] # 0

---------------------------------------------------------------------------
(* Properties of the sequencer.                                            *)

\* C1: a run whose write fails leaves the command buffer as it was when run
\* was called, and a run whose write succeeds leaves it empty.
C1_FlushAtomic ==
    op.name = "run" =>
        /\ ret \in {Ok, Err}
        /\ ret = Err => cmd = pre
        /\ ret = Ok => cmd = <<>>

\* a failed run of a buffer of two commands, after the device took a byte
C1_Witness ==
    /\ op.name = "run" /\ ret = Err
    /\ pre = TOTAL_CUT \o PRINT
    /\ cmd = pre
    /\ device = <<27>>

IsPrefix(a, b) == Len(a) <= Len(b) /\ a = SubSeq(b, 1, Len(a))

\* C2: whatever is appended and run, with failed runs retried, the bytes the
\* device has received are the appended commands in append order.
C2_DeviceOrder ==
    /\ IsPrefix(device, appended)
    /\ (op.name = "run" /\ ret = Ok) => device = appended

\* the bytes of each fixed command as the printer's command table has them
TableBytes(o) ==
    CASE o.name = "cut_paper" ->
           (IF o.cut_type = "TotalCut" THEN <<27, 105>> ELSE <<27, 109>>)
      [] o.name = "print" -> <<10>>
      [] o.name = "print_and_feed_paper" ->
           (IF o.unit = "Inches" THEN <<27, 74, o.amount>>
                                 ELSE <<27, 100, o.amount>>)
      [] o.name = "speed" ->
           <<27, 120, CASE o.speed = "High" -> 0
                        [] o.speed = "Normal" -> 1
                        [] o.speed = "Low" -> 2>>
      [] o.name = "density" ->
           <<29, 124, CASE o.density = "Minus50" -> 0
                        [] o.density = "Minus25" -> 1
                        [] o.density = "Zero" -> 2
                        [] o.density = "Plus25" -> 3
                        [] o.density = "Plus50" -> 4>>

FixedCommands ==
    {"cut_paper", "print", "print_and_feed_paper", "speed", "density"}

\* C9: a fixed-command append returns self and appends exactly its table bytes
\* to the end of the buffer, the bytes already there unchanged; on a fresh
\* printer the buffer is exactly those bytes.
C9_FixedAppend ==
    op.name \in FixedCommands =>
        /\ ret = Ok
        /\ cmd = pre \o TableBytes(op)
        /\ calls.append = 1 => cmd = TableBytes(op)

\* density(Plus50) appended after a feed by 255 lines
C9_Witness ==
    /\ op.name = "density" /\ op.density = "Plus50"
    /\ pre = <<27, 100, 255>>
    /\ cmd = <<27, 100, 255, 29, 124, 4>>

---------------------------------------------------------------------------
(* Properties of bit_image.                                                *)

\* C3: a bit_image whose image cannot be opened or decoded returns an error
\* and leaves the command buffer exactly as it was.
C3_DecodeFailureAtomic ==
    op.name = "bit_image" =>
        /\ ~op.img.ok => ret = Err
        /\ ret = Err => cmd = pre

\* a failed bit_image after a print
C3_Witness ==
    /\ op.name = "bit_image" /\ ~op.img.ok /\ ret = Err
    /\ pre = PRINT
    /\ cmd = PRINT

\* C7: a successful bit_image of a width x height image appends exactly
\* ceil(height/bank) commands, the n-th of them the five header bytes and bank
\* n of the block buffer: width bytes in the 8-dot modes, width*3 in the 24-dot
\* modes.
C7_Framing ==
    (op.name = "bit_image" /\ ret = Ok) =>
        LET w == op.img.width
            dots == DotsOf(op.mode)
            banks == CeilDiv(op.img.height, dots)
            pl == w * (dots \div 8)
            flen == 5 + pl
            block == convert_bitmap_to_bitimage(
                         w, op.img.height, Threshold(op.img.bytes).bytes, op.mode).bytes
            added == SubSeq(cmd, Len(pre) + 1, Len(cmd))
        IN  /\ IsPrefix(pre, cmd)
            /\ Len(added) = banks * flen
            /\ Len(block) = banks * pl
            /\ \A n \in 0..(banks - 1) :
                   /\ SubSeq(added, n * flen + 1, n * flen + 2) = <<27, 42>>
                   /\ SubSeq(added, n * flen + 6, (n + 1) * flen)
                          = SubSeq(block, n * pl + 1, (n + 1) * pl)

\* an all-black 8 x 25 image in a 24-dot mode after a print: two commands of
\* 5 + 24 bytes, the second with row 24 and 23 padding lines
C7_Witness ==
    /\ op.name = "bit_image" /\ ret = Ok
    /\ op.mode = "Dots24DoubleDensity"
    /\ op.img.width = 8 /\ op.img.height = 25 /\ op.img.bytes[1] = 0
    /\ pre = PRINT
    /\ Len(cmd) = 1 + 2 * 29
    /\ cmd[1 + 29 + 6] = 128

\* C8: the header of every bit-image command is 0x1B, 0x2A, m, lo, hi with m
\* the mode's byte and lo + 256*hi the image width, for every width the
\* decoder can report.
C8_Header ==
    (op.name = "frame_header" /\ ret # Pending) =>
        /\ Len(ret.val) = 5
        /\ ret.val[1] = 27 /\ ret.val[2] = 42
        /\ ret.val[3] = (CASE op.mode = "Dots8SingleDensity" -> 0
                           [] op.mode = "Dots8DoubleDensity" -> 1
                           [] op.mode = "Dots24SingleDensity" -> 32
                           [] op.mode = "Dots24DoubleDensity" -> 33)
        /\ ret.val[4] \in 0..255 /\ ret.val[5] \in 0..255
        /\ ret.val[4] = op.width % 256
        /\ ret.val[4] + 256 * ret.val[5] = op.width

\* C10: thresholding never indexes outside the bitmap, so a bit_image whose
\* image was decoded returns Ok.
C10_ThresholdInBounds ==
    (op.name = "bit_image" /\ op.img.ok) => ret = Ok

====
